---- MODULE Spec2Model ----
(***************************************************************************)
(* Model of src/app.py: the teacher page (page_enseignant), the CSV store  *)
(* of submissions (load_soumissions / save_soumissions) and the admin      *)
(* listing (page_admin).                                                   *)
(*                                                                         *)
(* A Streamlit page is a script that is re-executed from the top on every  *)
(* widget interaction.  ScriptRun is that script, from line 69 to line 347,*)
(* as a function of the widget values of the run and of st.session_state;  *)
(* every teacher action below is one such run.                             *)
(*                                                                         *)
(* Strings are kept in ASCII: accents are dropped and the emoji that opens *)
(* each priority label is written as its code point ("U+1F31F ...").       *)
(***************************************************************************)
EXTENDS Integers, Sequences, FiniteSets, TLC

VARIABLES
    ec_types_sel,      \* per session: value of the "Types d'EC" multiselect
    selection_codes,   \* per session: st.session_state["selection_codes"]
    priorites,         \* per session: st.session_state["priorites"]
    form,              \* per session: nom / prenom / email / remarque widgets of the last click
    out,               \* per session: how the last script run ended
    erreurs,           \* per session: the list `erreurs` built by the last run
    old,               \* per session: local `old` of its last save_soumissions call
    df_new,            \* per session: df_new of its last successful click
    soumissions_file,  \* data/soumissions.csv
    clock,             \* datetime.now(), in seconds
    saves,             \* number of save_soumissions calls started so far
    admin_view         \* the table shown (and exported) by page_admin

vars == <<ec_types_sel, selection_codes, priorites, form, out, erreurs, old,
          df_new, soumissions_file, clock, saves, admin_view>>

(***************************************************************************)
(* Bounds of the model.                                                    *)
(***************************************************************************)
MaxSaves == 2
MaxSubmits == 1
MaxClock == 1

Sessions == {1, 2}

(***************************************************************************)
(* Program constants.                                                      *)
(***************************************************************************)
MIN_TOTAL == 8

ORDRE_NIVEAUX ==
    <<"Ingenieur_1", "Ingenieur_2", "Ingenieur_3", "L2", "L3", "M1", "M2">>

ORDER_TRACKS == <<"Genie Civil", "Structures", "VOA", "RIB">>

liste_priorites ==
    <<"U+1F31F Fortement souhaite", "U+1F44D Souhaite",
      "U+1F9E9 Je prends le defi", "U+2699 Disponible si besoin">>

(***************************************************************************)
(* Generic helpers on sequences (pandas / Python list idioms).  TLC        *)
(* evaluates an operator's argument once and a LET definition at each use, *)
(* so the steps of the script below hand their results on as arguments.    *)
(***************************************************************************)
Range(seq) == {seq[i] : i \in DOMAIN seq}

\* The same sequence, as a tuple TLC has evaluated.
Tuple(seq) == seq \o <<>>

Column(rows, c) == Tuple([i \in 1..Len(rows) |-> rows[i][c]])

\* Series.unique(): the distinct values in order of first appearance.
Unique(seq) ==
    LET First(i) == \A j \in 1..(i - 1) : seq[j] # seq[i]
        firsts == {i \in 1..Len(seq) : First(i)}
        Nth(k) == CHOOSE i \in firsts :
                      Cardinality({j \in firsts : j <= i}) = k
    IN  Tuple([k \in 1..Cardinality(firsts) |-> seq[Nth(k)]])

\* rows, the row at position i going to position pos[i]
Permute(rows, pos) ==
    Tuple([p \in 1..Len(rows) |->
              rows[CHOOSE i \in 1..Len(rows) : pos[i] = p]])

\* The pairs of positions of a sequence of n rows.
Pairs(n) == (1..n) \X (1..n)

\* A stable sort, less holding the pairs <<i, j>> with row i smaller than
\* row j: row i goes after every row that is smaller, and after the equal
\* rows that precede it.
StableSort(rows, less) ==
    LET n == Len(rows)
        Pos(i) == 1 + Cardinality({j \in 1..n :
                        \/ <<j, i>> \in less
                        \/ (<<i, j>> \notin less /\ j < i)})
    IN  Permute(rows, Tuple([i \in 1..n |-> Pos(i)]))

\* dict.get(key, "")
Get(d, k) == IF k \in DOMAIN d THEN d[k] ELSE ""

\* str.strip() on the strings the model types into the form.
Strip(s) == IF s \in {"", " ", "  "} THEN "" ELSE s

(***************************************************************************)
(* The catalogue file data/matieres_all.csv as load_matieres returns it.   *)
(***************************************************************************)
Matiere(code, title, level, track, type) ==
    [course_code |-> code, course_title |-> title, level_code |-> level,
     track_code |-> track, ec_type |-> type]

matieres_df ==
    <<Matiere("GC01", "Dynamique des structures", "M1", "Structures", "Cours"),
      Matiere("GC02", "Beton arme", "L3", "Genie Civil", "Cours"),
      Matiere("GC03", "Mecanique des sols", "L3", "Geotechnique", "Cours"),
      Matiere("GC04", "Hydraulique", "M1", "Genie Civil", "Cours"),
      Matiere("GC05", "Projet de fin d'etudes", "M2", "Structures", "TP"),
      Matiere("GC06", "Resistance des materiaux", "L3", "Structures", "Cours"),
      Matiere("GC07", "Fondations", "M1", "Geotechnique", "Cours"),
      Matiere("GC08", "Topographie", "L3", "Genie Civil", "Cours"),
      Matiere("GC09", "Construction metallique", "M1", "Structures", "Cours")>>

(***************************************************************************)
(* Lines 91-116: required levels and tracks, the EC-type filter.           *)
(***************************************************************************)
presents == Unique(Column(matieres_df, "level_code"))

niveaux_obligatoires ==
    LET Known(n) == n \in Range(presents)
        Other(n) == n \notin Range(ORDRE_NIVEAUX)
    IN  SelectSeq(ORDRE_NIVEAUX, Known) \o SelectSeq(presents, Other)

niveaux_sel == niveaux_obligatoires

present_tracks ==
    LET InLevels(m) == m.level_code \in Range(niveaux_sel)
    IN  Unique(Column(SelectSeq(matieres_df, InLevels), "track_code"))

parcours_sel ==
    LET Known(t) == t \in Range(present_tracks)
        Other(t) == t \notin Range(ORDER_TRACKS)
    IN  SelectSeq(ORDER_TRACKS, Known) \o SelectSeq(present_tracks, Other)

ec_types_all == Range(Column(matieres_df, "ec_type"))

CatalogueNoTypeMask(types) == matieres_df

Catalogue(types) ==
    LET Mask(m) == /\ m.level_code \in Range(niveaux_sel)
                   /\ m.track_code \in Range(parcours_sel)
                   /\ m.ec_type \in types
    IN  SelectSeq(matieres_df, Mask)

(***************************************************************************)
(* Data frames: the rows, and the column labels with the field of the rows *)
(* each label names.  A frame without rows still has its labels, and       *)
(* df[label] raises KeyError for a label the frame does not have.          *)
(***************************************************************************)
Frame(labels, rows) == [labels |-> labels, rows |-> rows]

IsEmpty(df) == df.rows = <<>>

HasColumn(df, label) == label \in DOMAIN df.labels

\* df[label], for a label the frame has
Col(df, label) == Column(df.rows, df.labels[label])

\* Lines 129-135 and 288.
affichage_cols ==
    ("course_code" :> "Code UE") @@ ("course_title" :> "Matiere") @@
    ("level_code" :> "Niveau") @@ ("track_code" :> "Parcours") @@
    ("ec_type" :> "Type d'EC")

inverse_cols ==
    [v \in {affichage_cols[k] : k \in DOMAIN affichage_cols} |->
        CHOOSE k \in DOMAIN affichage_cols : affichage_cols[k] = v]

\* DataFrame.rename(columns=mapping)
Rename(df, mapping) ==
    LET New(c) == IF c \in DOMAIN mapping THEN mapping[c] ELSE c
        Orig(d) == CHOOSE c \in DOMAIN df.labels : New(c) = d
    IN  Frame([d \in {New(c) : c \in DOMAIN df.labels} |-> df.labels[Orig(d)]],
              df.rows)

\* DataFrame.drop(columns=[label])
Drop(df, label) ==
    Frame([d \in DOMAIN df.labels \ {label} |-> df.labels[d]], df.rows)

\* df[df[label] == v]
Where(df, label, v) ==
    LET Keep(r) == r[df.labels[label]] = v
    IN  Frame(df.labels, SelectSeq(df.rows, Keep))

(***************************************************************************)
(* Lines 116 and 136-154: the grid shown in the data editor.               *)
(***************************************************************************)
Work(catalogue, sel, prio) ==
    LET shown == Rename(Frame([c \in DOMAIN affichage_cols |-> c], <<>>),
                        affichage_cols)
    IN  Frame(shown.labels @@ ("Choisir" :> "Choisir")
                  @@ ("Priorite" :> "Priorite"),
              Tuple([i \in 1..Len(catalogue) |->
                  [course_code |-> catalogue[i].course_code,
                   course_title |-> catalogue[i].course_title,
                   level_code |-> catalogue[i].level_code,
                   track_code |-> catalogue[i].track_code,
                   ec_type |-> catalogue[i].ec_type,
                   Choisir |-> catalogue[i].course_code \in Range(sel),
                   Priorite |-> Get(prio, catalogue[i].course_code)]]))

\* Lines 216-235: what st.data_editor returns, the teacher having flipped
\* the "Choisir" box of the rows whose code is in `toggled`.
Edited(work, toggled) ==
    Frame(work.labels,
          Tuple([i \in 1..Len(work.rows) |->
              [work.rows[i] EXCEPT !.Choisir =
                  IF work.rows[i].course_code \in toggled THEN ~@ ELSE @]]))

(***************************************************************************)
(* Lines 294-312: the validation rules.  A message is kept as the rule it  *)
(* comes from and the values its text carries.                             *)
(***************************************************************************)
Message(rule, requis, actuel, manquants) ==
    [rule |-> rule, requis |-> requis, actuel |-> actuel,
     manquants |-> manquants]

\* Lines 303 and 307:
\* [x for x in required if x not in chosen[label].unique()]
ManquantsAll(required, present) == required

Manquants(required, present) ==
    LET Missing(x) == x \notin Range(present)
    IN  SelectSeq(required, Missing)

\* Line 311.
PrioriteManquante(chosen) ==
    /\ ~IsEmpty(chosen)
    /\ \E i \in 1..Len(chosen.rows) : Col(chosen, "Priorite")[i] = ""

\* Lines 300-301.
TropPeu(chosen) ==
    IF Len(chosen.rows) < MIN_TOTAL
    THEN <<Message("min", MIN_TOTAL, Len(chosen.rows), <<>>)>> ELSE <<>>

\* Lines 303-312, the columns being there.
Regles(chosen, niv, trk) ==
    (IF niv # <<>> THEN <<Message("niveaux", 0, 0, niv)>> ELSE <<>>)
    \o (IF trk # <<>> THEN <<Message("parcours", 0, 0, trk)>> ELSE <<>>)
    \o (IF PrioriteManquante(chosen)
        THEN <<Message("priorite", 0, 0, <<>>)>> ELSE <<>>)

\* The list `erreurs`, or the exception that ends the run: chosen[label]
\* raises KeyError when the frame has no such column (the list is then lost).
Validation(chosen) ==
    IF \/ niveaux_sel # <<>> /\ ~HasColumn(chosen, "level_code")
       \/ parcours_sel # <<>> /\ ~HasColumn(chosen, "track_code")
    THEN [exc |-> "KeyError", erreurs |-> <<>>]
    ELSE [exc |-> "",
          erreurs |->
              TropPeu(chosen)
              \o Regles(chosen,
                        Manquants(niveaux_sel,
                                  Unique(Col(chosen, "level_code"))),
                        Manquants(parcours_sel,
                                  Unique(Col(chosen, "track_code"))))]

(***************************************************************************)
(* Lines 314-340: the click on "Enregistrer mes choix".                    *)
(***************************************************************************)
\* Line 315.
IdentityMissing(nom, prenom) == Strip(nom) = "" \/ Strip(prenom) = ""

\* Line 318: `if erreurs:`
NeverBlocked(errs) == FALSE

Blocked(errs) == errs # <<>>

\* Line 325: cat_order; a label outside the list maps to NaN and sorts last.
CatOrder(label) ==
    IF label \in Range(liste_priorites)
    THEN (CHOOSE i \in DOMAIN liste_priorites : liste_priorites[i] = label) - 1
    ELSE Len(liste_priorites)

\* Line 326: on the frames of the model (at most 16 rows) numpy's default
\* sort is an insertion sort, which keeps equal rows in their order.
SortedByPriorite(chosen) ==
    LET key == Tuple([i \in 1..Len(chosen.rows) |->
                   CatOrder(Col(chosen, "Priorite")[i])])
    IN  StableSort(chosen.rows,
                   {p \in Pairs(Len(chosen.rows)) : key[p[1]] < key[p[2]]})

\* Lines 328-340: df_new.
Lignes(chosen, sorted, nom, prenom, email, remarque, now) ==
    Tuple([i \in 1..Len(sorted) |->
        [nom |-> nom, prenom |-> prenom, email |-> email,
         niveau |-> sorted[i][chosen.labels["level_code"]],
         parcours |-> sorted[i][chosen.labels["track_code"]],
         matiere |-> sorted[i][chosen.labels["course_title"]],
         priorite |-> sorted[i][chosen.labels["Priorite"]],
         remarques |-> remarque, date_soumission |-> now]])

(***************************************************************************)
(* page_enseignant, lines 69-347: one run of the script.                   *)
(*   sel0, prio0 : st.session_state before the run                         *)
(*   types       : value of the EC-type multiselect                        *)
(*   toggled     : boxes of the grid flipped by the teacher                *)
(*   pedit       : priorities picked in the select boxes, code -> label    *)
(*   click       : whether the button was pressed                          *)
(*   frm         : the text widgets nom, prenom, email, remarque           *)
(* The result gives the session state after the run and how it ended:      *)
(*   "empty_catalogue" (line 120), "KeyError" (line 303), "rendered" (the  *)
(*   button was not pressed), "identity_error" (316), "validation_error"   *)
(*   (319) or "save" (df_new is handed to save_soumissions, line 341).     *)
(***************************************************************************)
End(how, sel, prio, errs, rows) ==
    [out |-> how, sel |-> sel, prio |-> prio, erreurs |-> errs,
     df_new |-> rows]

\* Lines 298-347.
Bouton(sel, prio, nom, chosen, val, click, frm, now) ==
    IF val.exc # "" THEN End(val.exc, sel, prio, <<>>, <<>>)
    ELSE IF ~click THEN End("rendered", sel, prio, val.erreurs, <<>>)
    ELSE IF IdentityMissing(nom, frm.prenom)
    THEN End("identity_error", sel, prio, val.erreurs, <<>>)
    ELSE IF Blocked(val.erreurs)
    THEN End("validation_error", sel, prio, val.erreurs, <<>>)
    ELSE End("save", sel, prio, val.erreurs,
             Lignes(chosen, SortedByPriorite(chosen), nom, frm.prenom,
                    frm.email, frm.remarque, now))

\* Lines 298-312.
Validee(sel, prio, nom, chosen, click, frm, now) ==
    Bouton(sel, prio, nom, chosen, Validation(chosen), click, frm, now)

\* Lines 287-297: the columns get their names back, unless nothing is
\* selected; `chosen` is the frame without its "Choisir" column.
Reprojection(sel, prio, nom, selectionnees, click, frm, now) ==
    Validee(sel, prio, nom,
            Drop(IF IsEmpty(selectionnees) THEN selectionnees
                 ELSE Rename(selectionnees, inverse_cols), "Choisir"),
            click, frm, now)

\* Lines 265-285: the select boxes.  Line 270 rebinds `nom`, the name typed
\* in the form, to the title of each selected row in turn.
Panneau(sel, prio, selectionnees, click, frm, now) ==
    Reprojection(
        sel, prio,
        IF IsEmpty(selectionnees) THEN frm.nom
        ELSE Col(selectionnees, "Matiere")[Len(selectionnees.rows)],
        IF IsEmpty(selectionnees) THEN selectionnees
        ELSE Frame(selectionnees.labels,
                   Tuple([i \in 1..Len(selectionnees.rows) |->
                       [selectionnees.rows[i] EXCEPT
                           !.Priorite = prio[Col(selectionnees, "Code UE")[i]]]])),
        click, frm, now)

\* Lines 256-282: the priorities kept for the selected codes, each select
\* box returning its widget value.
Priorites(codes, prio1, pedit) ==
    [c \in Range(codes) |->
        IF c \in DOMAIN pedit THEN pedit[c] ELSE Get(prio1, c)]

\* Lines 248-263.
Selection(selectionnees, prio1, pedit, click, frm, now) ==
    Panneau(Col(selectionnees, "Code UE"),
            Priorites(Col(selectionnees, "Code UE"), prio1, pedit),
            selectionnees, click, frm, now)

\* Lines 141-248: the session state is cleaned to the codes of the
\* catalogue, the grid is drawn and edited.
Grille(catalogue, sel1, prio0, toggled, pedit, click, frm, now) ==
    Selection(
        Where(Edited(Work(catalogue, sel1,
                          [c \in Range(sel1) |-> Get(prio0, c)]),
                     toggled),
              "Choisir", TRUE),
        [c \in Range(sel1) |-> Get(prio0, c)], pedit, click, frm, now)

\* Lines 146-147.
Nettoyage(catalogue, sel0) ==
    LET Available(c) == c \in Range(Column(catalogue, "course_code"))
    IN  SelectSeq(sel0, Available)

\* Lines 118-120, then the rest of the page.
Filtre(catalogue, sel0, prio0, toggled, pedit, click, frm, now) ==
    IF catalogue = <<>>
    THEN End("empty_catalogue", sel0, prio0, <<>>, <<>>)
    ELSE Grille(catalogue, Nettoyage(catalogue, sel0), prio0, toggled, pedit,
                click, frm, now)

ScriptRun(sel0, prio0, types, toggled, pedit, click, frm, now) ==
    Filtre(Catalogue(types), sel0, prio0, toggled, pedit, click, frm, now)

(***************************************************************************)
(* The CSV file of submissions.  The file holds text; pandas.read_csv      *)
(* turns the cells it takes for missing values into NaN and to_csv writes  *)
(* NaN as the empty cell.  No text of the model is a numeric literal, so   *)
(* read_csv infers no numeric column; date_soumission holds the second at  *)
(* which strftime was taken (a fixed-width text, read back as it is).      *)
(***************************************************************************)
NaN == "float:nan"

\* pandas' default na_values
NaValues ==
    {"", "#N/A", "#N/A N/A", "#NA", "-1.#IND", "-1.#QNAN", "-NaN", "-nan",
     "1.#IND", "1.#QNAN", "<NA>", "N/A", "NA", "NULL", "NaN", "n/a", "nan",
     "null"}

ParseCell(c, v) ==
    IF c # "date_soumission" /\ v \in NaValues THEN NaN ELSE v

FormatCell(c, v) ==
    IF c # "date_soumission" /\ v = NaN THEN "" ELSE v

\* pd.read_csv(SOUMISSIONS_FILE)
ReadCsv(rows) ==
    [i \in 1..Len(rows) |->
        [c \in DOMAIN rows[i] |-> ParseCell(c, rows[i][c])]]

\* DataFrame.to_csv(index=False)
ToCsv(rows) ==
    [i \in 1..Len(rows) |->
        [c \in DOMAIN rows[i] |-> FormatCell(c, rows[i][c])]]

\* DataFrame.fillna("")
FillNa(rows) ==
    [i \in 1..Len(rows) |->
        [c \in DOMAIN rows[i] |-> FormatCell(c, rows[i][c])]]

NoFile == [exists |-> FALSE, rows |-> <<>>]

\* Lines 26-30.
load_soumissions(file) ==
    IF file.exists THEN FillNa(ReadCsv(file.rows)) ELSE <<>>

\* Lines 33-34: what save_soumissions reads before it writes.
SaveRead(file) ==
    IF file.exists THEN [exists |-> TRUE, rows |-> ReadCsv(file.rows)]
    ELSE NoFile

\* Lines 35-37: `final`.
SaveFinal(oldv, new) == IF oldv.exists THEN oldv.rows \o new ELSE new

\* Line 38: to_csv opens the file in mode "w"; what the file held is gone.
WriteFileAppend(current, final) ==
    [exists |-> TRUE, rows |-> current.rows \o ToCsv(final)]

WriteFile(current, final) == [exists |-> TRUE, rows |-> ToCsv(final)]

(***************************************************************************)
(* page_admin, lines 350-403.  Python compares str by code point, and the  *)
(* four labels differ in their first character.                            *)
(***************************************************************************)
FirstCodePoint(label) ==
    CASE label = liste_priorites[1] -> 127775     \* U+1F31F
      [] label = liste_priorites[2] -> 128077     \* U+1F44D
      [] label = liste_priorites[3] -> 129513     \* U+1F9E9
      [] label = liste_priorites[4] -> 9881       \* U+2699
      [] OTHER -> 0                               \* the empty string

StrLess(a, b) == FirstCodePoint(a) < FirstCodePoint(b)

\* Lines 370 and 377.
Enseignant(r) == <<r.nom, r.prenom>>

\* Lines 373-378.
Filtered(df, sel_niv, sel_par, sel_prof) ==
    LET Keep(r) == /\ sel_niv # {} => r.niveau \in sel_niv
                   /\ sel_par # {} => r.parcours \in sel_par
                   /\ sel_prof # {} => Enseignant(r) \in sel_prof
    IN  SelectSeq(df, Keep)

\* Lines 381 and 400: sort_values(["date_soumission", "priorite"],
\* ascending=[False, True]).
AdminSort(rows) ==
    LET Less(a, b) ==
            \/ a.date_soumission > b.date_soumission
            \/ /\ a.date_soumission = b.date_soumission
               /\ StrLess(a.priorite, b.priorite)
    IN  StableSort(rows,
                   {p \in Pairs(Len(rows)) : Less(rows[p[1]], rows[p[2]])})

(***************************************************************************)
(* State.                                                                  *)
(***************************************************************************)
NoPriorites == [c \in {} |-> ""]

EmptyForm == [nom |-> "", prenom |-> "", email |-> "", remarque |-> ""]

\* Each session has loaded the page once: nothing is selected.
FirstRun ==
    ScriptRun(<<>>, NoPriorites, ec_types_all, {}, NoPriorites, FALSE,
              EmptyForm, 0)

Init ==
    /\ ec_types_sel = [s \in Sessions |-> ec_types_all]
    /\ selection_codes = [s \in Sessions |-> FirstRun.sel]
    /\ priorites = [s \in Sessions |-> FirstRun.prio]
    /\ form = [s \in Sessions |-> EmptyForm]
    /\ out = [s \in Sessions |-> FirstRun.out]
    /\ erreurs = [s \in Sessions |-> FirstRun.erreurs]
    /\ old = [s \in Sessions |-> NoFile]
    /\ df_new = [s \in Sessions |-> <<>>]
    /\ soumissions_file = NoFile
    /\ clock = 0
    /\ saves = 0
    /\ admin_view = <<>>

(***************************************************************************)
(* One run of the teacher page for session s.  With `whole` the call of    *)
(* save_soumissions (line 341) runs to its end within the step; without it *)
(* the step stops between the read (line 34) and the write (line 38), and  *)
(* SaveWrite finishes the handler.                                         *)
(***************************************************************************)
Commit(s, types, frm, whole, r, oldv) ==
    /\ out[s] # "saving"
    /\ ec_types_sel' = [ec_types_sel EXCEPT ![s] = types]
    /\ selection_codes' = [selection_codes EXCEPT ![s] = r.sel]
    /\ priorites' = [priorites EXCEPT ![s] = r.prio]
    /\ erreurs' = [erreurs EXCEPT ![s] = r.erreurs]
    /\ form' = [form EXCEPT ![s] = frm]
    /\ IF r.out = "save"
       THEN /\ saves < MaxSaves
            /\ saves' = saves + 1
            /\ old' = [old EXCEPT ![s] = oldv]
            /\ df_new' = [df_new EXCEPT ![s] = r.df_new]
            /\ IF whole
               THEN /\ soumissions_file' =
                          WriteFile(soumissions_file,
                                    SaveFinal(oldv, r.df_new))
                    /\ out' = [out EXCEPT ![s] = "success"]
               ELSE /\ soumissions_file' = soumissions_file
                    /\ out' = [out EXCEPT ![s] = "saving"]
       ELSE /\ out' = [out EXCEPT ![s] = r.out]
            /\ UNCHANGED <<saves, old, df_new, soumissions_file>>
    /\ UNCHANGED <<clock, admin_view>>

Rerun(s, types, toggled, pedit, click, frm, whole) ==
    Commit(s, types, frm, whole,
           ScriptRun(selection_codes[s], priorites[s], types, toggled, pedit,
                     click, frm, clock),
           SaveRead(soumissions_file))

CodesShown(s) == Range(Column(Catalogue(ec_types_sel[s]), "course_code"))

\* The grid was drawn by the last run (line 216 was reached).
GridShown(s) == out[s] \notin {"saving", "empty_catalogue"}

\* The button was drawn by the last run (line 314 was reached).
ButtonShown(s) == out[s] \notin {"saving", "empty_catalogue", "KeyError"}

\* The teacher ticks or unticks the row of code c.
Toggle(s, c) ==
    /\ GridShown(s)
    /\ c \in CodesShown(s)
    /\ Rerun(s, ec_types_sel[s], {c}, NoPriorites, FALSE, form[s], TRUE)

\* The teacher picks a label in the select box of the selected row c.
SetPriority(s, c, label) ==
    /\ GridShown(s)
    /\ c \in Range(selection_codes[s]) \cap CodesShown(s)
    /\ label \in {""} \cup Range(liste_priorites)
    /\ Rerun(s, ec_types_sel[s], {}, c :> label, FALSE, form[s], TRUE)

\* The teacher changes the EC-type multiselect.
SetFilter(s, types) ==
    /\ types \subseteq ec_types_all
    /\ types # ec_types_sel[s]
    /\ Rerun(s, types, {}, NoPriorites, FALSE, form[s], TRUE)

\* The teacher presses the button, the text widgets holding frm.
Submit(s, frm) ==
    /\ ButtonShown(s)
    /\ Rerun(s, ec_types_sel[s], {}, NoPriorites, TRUE, frm, TRUE)

\* The same click, up to the read of the file in save_soumissions.
SubmitBegin(s, frm) ==
    /\ ButtonShown(s)
    /\ Rerun(s, ec_types_sel[s], {}, NoPriorites, TRUE, frm, FALSE)

\* Lines 35-38 and 343: the write that ends the click, and st.success.
SaveWrite(s) ==
    /\ out[s] = "saving"
    /\ soumissions_file' =
           WriteFile(soumissions_file, SaveFinal(old[s], df_new[s]))
    /\ out' = [out EXCEPT ![s] = "success"]
    /\ UNCHANGED <<ec_types_sel, selection_codes, priorites, form, erreurs,
                   old, df_new, clock, saves, admin_view>>

\* page_admin: the table of line 381, empty when nothing is shown.
AdminView(code_ok, sel_niv, sel_par, sel_prof) ==
    LET df == load_soumissions(soumissions_file)
    IN  /\ admin_view' =
               IF ~code_ok \/ df = <<>> THEN <<>>
               ELSE AdminSort(Filtered(df, sel_niv, sel_par, sel_prof))
        /\ UNCHANGED <<ec_types_sel, selection_codes, priorites, form, out,
                       erreurs, old, df_new, soumissions_file, clock, saves>>

\* A second passes.
Tick ==
    /\ clock < MaxClock
    /\ clock' = clock + 1
    /\ UNCHANGED <<ec_types_sel, selection_codes, priorites, form, out,
                   erreurs, old, df_new, soumissions_file, saves, admin_view>>

(***************************************************************************)
(* What the teachers and the administrator of the model type and click.    *)
(***************************************************************************)
Form(nom, prenom, email, remarque) ==
    [nom |-> nom, prenom |-> prenom, email |-> email, remarque |-> remarque]

Forms ==
    {Form("Benali", "Amina", "amina@univ-tlemcen.dz", "Eviter lundi matin"),
     Form("", "Amina", "", "N/A"),
     Form("Benali", " ", "", "N/A")}

FormsStore ==
    {Form("Benali", "Amina", "amina@univ-tlemcen.dz", "Eviter lundi matin"),
     Form("Benali", "Amina", "", "N/A")}

\* The label the teachers of the model give to a course: the four labels in
\* turn down the catalogue.
PrioriteFor(c) ==
    LET i == CHOOSE k \in DOMAIN matieres_df : matieres_df[k].course_code = c
    IN  liste_priorites[((i - 1) % Len(liste_priorites)) + 1]

Unset(s) == {c \in DOMAIN priorites[s] : priorites[s][c] = ""}

\* A teacher who works down the grid ticks the first row not yet ticked, once
\* every ticked row has its priority.
NextRow(s) ==
    LET Free(m) == m.course_code \notin Range(selection_codes[s])
        free == SelectSeq(Catalogue(ec_types_sel[s]), Free)
    IN  IF free # <<>> /\ Unset(s) = {} THEN {free[1].course_code} ELSE {}

\* The row ticked last.
LastRow(s) ==
    IF selection_codes[s] # <<>>
    THEN {selection_codes[s][Len(selection_codes[s])]} ELSE {}

AdminInputs ==
    {<<TRUE, {}, {}, {}>>, <<FALSE, {}, {}, {}>>,
     <<TRUE, {"L3", "M2"}, {"Structures"},
       {<<"Construction metallique", "Amina">>}>>}

(***************************************************************************)
(* Spec: one teacher who works down the grid, may untick the last row and  *)
(* change the filter; every click runs to its end, and at most MaxSubmits  *)
(* of them save.                                                           *)
(***************************************************************************)
Next ==
    \/ \E c \in NextRow(1) \cup LastRow(1) : Toggle(1, c)
    \/ \E c \in Unset(1) : SetPriority(1, c, PrioriteFor(c))
    \/ \E types \in SUBSET ec_types_all : SetFilter(1, types)
    \/ \E frm \in Forms : Submit(1, frm) /\ saves' <= MaxSubmits

Spec == Init /\ [][Next]_vars

(***************************************************************************)
(* SpecStore: one teacher who fills the grid and submits, the seconds      *)
(* passing, and the administrator looking at the submissions.              *)
(***************************************************************************)
NextStore ==
    \/ \E c \in NextRow(1) : Toggle(1, c)
    \/ \E c \in Unset(1) : SetPriority(1, c, PrioriteFor(c))
    \/ \E frm \in FormsStore : Submit(1, frm)
    \/ \E a \in AdminInputs : AdminView(a[1], a[2], a[3], a[4])
    \/ Tick

SpecStore == Init /\ [][NextStore]_vars

(***************************************************************************)
(* SpecConc: two teachers whose clicks interleave at the file: the read    *)
(* and the write of save_soumissions are two steps.                        *)
(***************************************************************************)
FormOf(s) ==
    IF s = 1 THEN Form("Benali", "Amina", "", "Eviter lundi matin")
    ELSE Form("Saidi", "Karim", "", "Eviter lundi matin")

NextConc ==
    \/ \E s \in Sessions : \E c \in NextRow(s) : Toggle(s, c)
    \/ \E s \in Sessions : \E c \in Unset(s) : SetPriority(s, c, PrioriteFor(c))
    \/ \E s \in Sessions : SubmitBegin(s, FormOf(s))
    \/ \E s \in Sessions : SaveWrite(s)

SpecConc == Init /\ [][NextConc]_vars

(***************************************************************************)
(* SpecEdit: one teacher who ticks and unticks any row, leaves at most one *)
(* ticked row without its priority, and changes the filter; nothing is     *)
(* submitted.                                                              *)
(***************************************************************************)
NextEdit ==
    \/ \E c \in CodesShown(1) :
           /\ c \notin Range(selection_codes[1]) => Unset(1) = {}
           /\ Toggle(1, c)
    \/ \E c \in Unset(1) : SetPriority(1, c, PrioriteFor(c))
    \/ \E types \in SUBSET ec_types_all : SetFilter(1, types)

SpecEdit == Init /\ [][NextEdit]_vars

(***************************************************************************)
(* The claims.  What a selection covers is stated here from the catalogue  *)
(* and the session state, not from the frames of the script.               *)
(***************************************************************************)
MatiereOf(code) ==
    CHOOSE m \in Range(matieres_df) : m.course_code = code

Selected(s) ==
    {m \in Range(matieres_df) : m.course_code \in Range(selection_codes[s])}

RequiredLevels == {m.level_code : m \in Range(matieres_df)}

RequiredTracks == {m.track_code : m \in Range(matieres_df)}

MissingLevels(s) == RequiredLevels \ {m.level_code : m \in Selected(s)}

MissingTracks(s) == RequiredTracks \ {m.track_code : m \in Selected(s)}

\* The run of session s got as far as the validation rules.
Validated(s) == out[s] \notin {"empty_catalogue", "saving", "success"}

RulesOf(errs) == [i \in 1..Len(errs) |-> errs[i].rule]

\* The rows the file holds after the first n.
RowsAfter(file, n) == SubSeq(file.rows, n + 1, Len(file.rows))

\* C1: sequential appends never lose rows: every write of the file leaves
\* the rows it held unchanged and in the same order, followed by the rows
\* of the submission.
C1_SequentialAppendsKeepRows ==
    [][soumissions_file' # soumissions_file =>
           soumissions_file'.rows = soumissions_file.rows \o df_new'[1]]_vars

\* C2: when two sessions were both told that their rows are saved and
\* their saves read the same old content, the file holds, after that old
\* content, the rows of one of the two submissions only: those of the
\* other are lost.
Added(s) == RowsAfter(soumissions_file, Len(old[s].rows))

C2_ConcurrentAppendsLoseRows ==
    \A s \in Sessions : \A t \in Sessions \ {s} :
        (out[s] = "success" /\ out[t] = "success" /\ old[s] = old[t]) =>
            /\ Added(s) \in {df_new[s], df_new[t]}
            /\ Len(Added(s)) < Len(df_new[s]) + Len(df_new[t])

Kept(s) ==
    \A i \in DOMAIN df_new[s] :
        \E j \in DOMAIN soumissions_file.rows :
            soumissions_file.rows[j] = df_new[s][i]

C2_Witness ==
    /\ out[1] = "success" /\ out[2] = "success"
    /\ old[1] = old[2]
    /\ Kept(2) /\ ~Kept(1)
    /\ soumissions_file.rows = df_new[2]

\* C3: a click made with an empty or blank name or surname ends with the
\* identity error, and appends nothing.
C3_IdentityCheckBlocks ==
    \A s \in Sessions :
        (/\ out[s] \in {"identity_error", "validation_error", "saving",
                        "success"}
         /\ (Strip(form[s].nom) = "" \/ Strip(form[s].prenom) = ""))
            => out[s] = "identity_error"

\* C4: every row of a successful submission made with a name and a surname
\* carries the name, surname and e-mail typed in the form, the remarks
\* typed, and one timestamp.
C4_RowsCarryTheSubmitter ==
    \A s \in Sessions :
        (/\ out[s] = "success"
         /\ Strip(form[s].nom) # "" /\ Strip(form[s].prenom) # "") =>
            \A i \in DOMAIN df_new[s] :
                /\ df_new[s][i].nom = form[s].nom
                /\ df_new[s][i].prenom = form[s].prenom
                /\ df_new[s][i].email = form[s].email
                /\ df_new[s][i].remarques = form[s].remarque
                /\ df_new[s][i].date_soumission = df_new[s][1].date_soumission

\* C5: a click appends rows only if no rule fails, and then one row for
\* each selected course; a click on which a rule fails leaves the file and
\* the selection as they were.
OneRowPerSelected(rows, sel) ==
    /\ Len(rows) = Len(sel)
    /\ \A c \in Range(sel) :
           Cardinality({i \in DOMAIN rows :
               /\ rows[i].matiere = MatiereOf(c).course_title
               /\ rows[i].niveau = MatiereOf(c).level_code
               /\ rows[i].parcours = MatiereOf(c).track_code}) = 1

C5_AllOrNothing ==
    [][/\ soumissions_file' # soumissions_file =>
              /\ out'[1] = "success"
              /\ erreurs'[1] = <<>>
              /\ MissingLevels(1) = {} /\ MissingTracks(1) = {}
              /\ Len(selection_codes[1]) >= MIN_TOTAL
              /\ \A c \in Range(selection_codes[1]) : priorites[1][c] # ""
              /\ OneRowPerSelected(
                     RowsAfter(soumissions_file', Len(soumissions_file.rows)),
                     selection_codes'[1])
       /\ erreurs'[1] # <<>> =>
              /\ soumissions_file' = soumissions_file
              /\ out'[1] # "success"
       /\ out'[1] = "validation_error" =>
              /\ erreurs'[1] # <<>>
              /\ soumissions_file' = soumissions_file
              /\ selection_codes' = selection_codes
              /\ priorites' = priorites]_vars

C5_Witness ==
    /\ out[1] = "validation_error"
    /\ ec_types_sel[1] = ec_types_all
    /\ Len(selection_codes[1]) = MIN_TOTAL + 1
    /\ RulesOf(erreurs[1]) = <<"priorite">>
    /\ Len(soumissions_file.rows) = MIN_TOTAL

\* C6: for a selection of fewer than MIN_TOTAL courses, the empty one
\* included, the validation ends and its first message is the minimum-count
\* one, with the required and the actual count.
C6_MinimumCountReported ==
    \A s \in Sessions :
        (Validated(s) /\ Len(selection_codes[s]) < MIN_TOTAL) =>
            /\ out[s] # "KeyError"
            /\ erreurs[s] # <<>>
            /\ erreurs[s][1] =
                   Message("min", MIN_TOTAL, Len(selection_codes[s]), <<>>)

\* C7: for every selection the list holds one message for each rule that
\* fails, in the order minimum count, levels, tracks, priorities, and none
\* for a rule that holds.
Fails(s, rule) ==
    CASE rule = "min" -> Len(selection_codes[s]) < MIN_TOTAL
      [] rule = "niveaux" -> MissingLevels(s) # {}
      [] rule = "parcours" -> MissingTracks(s) # {}
      [] rule = "priorite" ->
             \E c \in Range(selection_codes[s]) : priorites[s][c] = ""

ExpectedRules(s) ==
    LET Failing(rule) == Fails(s, rule)
    IN  SelectSeq(<<"min", "niveaux", "parcours", "priorite">>, Failing)

C7_EveryFailingRuleReported ==
    \A s \in Sessions :
        Validated(s) =>
            /\ out[s] # "KeyError"
            /\ RulesOf(erreurs[s]) = ExpectedRules(s)

\* C8: for a selection that is not empty, the level message names exactly
\* the required levels without a selected course, each once, and there is
\* no such message iff every required level has one.
LevelMessages(s) ==
    LET IsLevel(m) == m.rule = "niveaux"
    IN  SelectSeq(erreurs[s], IsLevel)

C8_LevelCoverageExact ==
    \A s \in Sessions :
        (Validated(s) /\ selection_codes[s] # <<>>) =>
            /\ out[s] # "KeyError"
            /\ (MissingLevels(s) = {}) <=> (LevelMessages(s) = <<>>)
            /\ LevelMessages(s) # <<>> =>
                   /\ Len(LevelMessages(s)) = 1
                   /\ Range(LevelMessages(s)[1].manquants) = MissingLevels(s)
                   /\ Len(LevelMessages(s)[1].manquants)
                          = Cardinality(MissingLevels(s))

C8_Witness ==
    /\ out[1] = "rendered"
    /\ Len(selection_codes[1]) = MIN_TOTAL
    /\ {m.level_code : m \in Selected(1)} = {"L3", "M1"}
    /\ LevelMessages(1) = <<Message("niveaux", 0, 0, <<"M2">>)>>

\* C9: the table of the admin page is ordered by date, latest first, and
\* among the rows of one date by the place of their label in
\* liste_priorites.
C9_AdminOrderFollowsLabelList ==
    \A i \in DOMAIN admin_view : \A j \in DOMAIN admin_view :
        i < j =>
            /\ admin_view[i].date_soumission >= admin_view[j].date_soumission
            /\ admin_view[i].date_soumission = admin_view[j].date_soumission
                   => CatOrder(admin_view[i].priorite)
                          <= CatOrder(admin_view[j].priorite)

\* C10: while the EC-type filter leaves out every course of some level or
\* track of the catalogue, the selection of the session misses a required
\* level or track, each validation that ends reports the levels and tracks
\* left out as missing, no click succeeds and the file does not change.
LevelsOfTypes(types) ==
    {m.level_code : m \in {x \in Range(matieres_df) : x.ec_type \in types}}

TracksOfTypes(types) ==
    {m.track_code : m \in {x \in Range(matieres_df) : x.ec_type \in types}}

Excluding(types) ==
    \/ LevelsOfTypes(types) # RequiredLevels
    \/ TracksOfTypes(types) # RequiredTracks

Reported(s, rule, x) ==
    \E i \in DOMAIN erreurs[s] :
        erreurs[s][i].rule = rule /\ x \in Range(erreurs[s][i].manquants)

C10_ExcludingFilterBlocks ==
    /\ [](\A s \in Sessions :
            Excluding(ec_types_sel[s]) =>
                /\ out[s] \in {"empty_catalogue", "KeyError", "rendered",
                               "identity_error", "validation_error"}
                /\ out[s] # "empty_catalogue" =>
                       MissingLevels(s) \cup MissingTracks(s) # {}
                /\ out[s] \notin {"empty_catalogue", "KeyError"} =>
                       /\ \A l \in RequiredLevels \ LevelsOfTypes(ec_types_sel[s]) :
                              Reported(s, "niveaux", l)
                       /\ \A t \in RequiredTracks \ TracksOfTypes(ec_types_sel[s]) :
                              Reported(s, "parcours", t))
    /\ [][Excluding(ec_types_sel'[1]) =>
              soumissions_file' = soumissions_file]_vars

C10_Witness ==
    /\ ec_types_sel[1] = {"Cours"}
    /\ out[1] = "validation_error"
    /\ Strip(form[1].prenom) # ""
    /\ Len(selection_codes[1]) = MIN_TOTAL
    /\ erreurs[1] = <<Message("niveaux", 0, 0, <<"M2">>)>>
    /\ soumissions_file.exists

====
